---- MODULE Spec2Model ----
(***************************************************************************)
(* Model of src/nodejs-ai-assistant/src/agents/gemini/                     *)
(* GeminiResponseHandler.ts: the per-reply GeminiResponseHandler (run,     *)
(* dispose, handleStopGenerating, handleError) and the GeminiAgent that    *)
(* owns the handler registry (init, handleMessage, dispose,                *)
(* removeHandler).                                                         *)
(*                                                                         *)
(* Scheduling is that of the JavaScript event loop: code between two       *)
(* awaits of a transport or provider call runs atomically, so every action *)
(* below is one such segment.  A pc value names the await a run() is       *)
(* suspended on.  A call to an awaited async function of the handler       *)
(* itself (dispose, handleError up to its first transport call) runs       *)
(* synchronously inside the caller's segment.                              *)
(*                                                                         *)
(* A handler is identified by the id of the placeholder message it is      *)
(* bound to (this.message.id).                                             *)
(***************************************************************************)
EXTENDS Integers, Sequences, FiniteSets, TLC

\* ---------------------------------------------------------------- bounds
\* Spec, the whole program: several replies in flight, short streams.
MaxMsgs == 2        \* placeholder messages (hence handlers) ever created
WideChunks == 1     \* chunks one provider stream yields
WideSeconds == 0    \* whole throttle intervals the clock runs past Epoch
\* SpecReply, one reply: a single handler, longer streams and clock.
MaxChunks == 2      \* chunks the provider stream yields
MaxSeconds == 1     \* whole throttle intervals the clock runs past Epoch
\* Both.
MaxStops == 1       \* stop requests one handler accepts
Epoch == 5000       \* Date.now() when the model starts (ms)

\* ------------------------------------------------------ program constants
ThrottleMs == 1000

MsgIds == 1..MaxMsgs
\* Message ids a stop event may carry: every placeholder, and a foreign one.
StopIds == 0..MaxMsgs

\* Text is a sequence of characters.  Chunks are the chunk texts a stream
\* yields in SpecReply (the empty one included), WideChunkSet those of Spec.
Chunks == {<<>>, <<"a">>, <<"b">>}
WideChunkSet == {<<"a">>}
ErrText == <<"E">>

\* Sampled clock readings: Epoch + k*ThrottleMs + {0, 1}, k up to maxSeconds.
ClockValues(maxSeconds) ==
    {Epoch + k * ThrottleMs + j : k \in 0..maxSeconds, j \in 0..1}

\* Inbound "message.new" events: e.message present or not, its ai_generated
\* flag, and whether its text is non-empty.
Inbound ==
    { [hasMessage |-> FALSE, ai_generated |-> FALSE, hasText |-> FALSE],
      [hasMessage |-> TRUE, ai_generated |-> TRUE, hasText |-> FALSE],
      [hasMessage |-> TRUE, ai_generated |-> TRUE, hasText |-> TRUE],
      [hasMessage |-> TRUE, ai_generated |-> FALSE, hasText |-> FALSE],
      [hasMessage |-> TRUE, ai_generated |-> FALSE, hasText |-> TRUE] }
\* A user's message with text: the only inbound event handleMessage acts on.
UserInbound == { [hasMessage |-> TRUE, ai_generated |-> FALSE, hasText |-> TRUE] }

VARIABLES
    \* GeminiAgent
    agentPc,            \* "new" | "ready" | "disconnecting" | "disposed" | "disposeFailed"
    modelSet,           \* this.genAI and this.model are set
    subscribed,         \* handleMessage listens to "message.new"
    handlers,           \* this.handlers, in push order
    hmSending,          \* handleMessage invocations awaiting channel.sendMessage
    created,            \* placeholder messages created so far (ids 1..created)
    thinking,           \* ids whose handleMessage awaits the THINKING sendEvent
    aiSeen,             \* an AI-authored event has been delivered to handleMessage
    \* GeminiResponseHandler, per message id
    pc,                 \* where run() is suspended
    is_done,
    aborted,            \* abortController.signal.aborted
    listening,          \* handleStopGenerating listens to "ai_indicator.stop"
    fullResponse,
    last_update_time,
    now,                \* the loop's local now while the partial update is awaited
    stopPending,        \* handleStopGenerating invocations awaiting their sendEvent
    \* provider and transport
    stream,             \* chunks the provider stream has yielded so far
    streamEnded,        \* the provider stream reported its end to the loop
    clock,              \* Date.now()
    log,                \* transport calls issued for the message: events, updates
    msgText,            \* the message's text as the transport holds it
    \* observations
    flushTimes,         \* clock readings at which in-loop updates were issued
    onDisposeCalls,     \* times the onDispose callback ran
    disposeCalled,      \* dispose() was called at least once
    nStops,             \* stop requests accepted
    ignoredStops        \* stop events for the handler's message it ignored

agentVars == <<agentPc, modelSet, subscribed, hmSending, created, thinking, aiSeen>>
disposeVars == <<is_done, listening, handlers, onDisposeCalls, disposeCalled>>
runVars == <<pc, aborted, fullResponse, last_update_time, now, stream, streamEnded>>
stopVars == <<stopPending, nStops, ignoredStops>>
ioVars == <<clock, log, msgText, flushTimes>>
vars == <<agentVars, disposeVars, runVars, stopVars, ioVars>>

\* ---------------------------------------------------------------- helpers

\* fullResponse = chunkText: the chunk replaces the accumulation.
ConcatReplaces(s, t) == t

\* fullResponse += chunkText
Concat(s, t) == s \o t

RECURSIVE Flatten(_)
\* The in-order concatenation of a sequence of chunks.
Flatten(cs) == IF cs = <<>> THEN <<>> ELSE Head(cs) \o Flatten(Tail(cs))

IsPrefix(s, t) == Len(s) <= Len(t) /\ SubSeq(t, 1, Len(s)) = s

RECURSIVE Filter(_, _)
Filter(seq, x) ==
    IF seq = <<>> THEN <<>>
    ELSE IF Head(seq) = x THEN Filter(Tail(seq), x)
    ELSE <<Head(seq)>> \o Filter(Tail(seq), x)

\* GeminiAgent.removeHandler: this.handlers.filter(handler => handler !== handlerToRemove)
removeHandler(hs, h) == Filter(hs, h)

\* One transport call: sendEvent (THINKING, GENERATING, CLEAR, ERROR) or
\* partialUpdateMessage (PARTIAL, FINAL, ERRTEXT) with the text it sets.
\* What is kept of the calls issued for one message: the set of events sent
\* and the last of them, and the text updates in the order they were sent.
IsUpdate(op) == op \in {"PARTIAL", "FINAL", "ERRTEXT"}
NoCalls == [events |-> {}, lastEvent |-> "none", updates |-> <<>>]
Record(l, op, text) ==
    IF IsUpdate(op)
    THEN [l EXCEPT !.updates = Append(@, [op |-> op, text |-> text])]
    ELSE [l EXCEPT !.events = @ \cup {op}, !.lastEvent = op]
Issue(h, op, text) == log' = [log EXCEPT ![h] = Record(@, op, text)]

\* The state dispose() reads and writes, as one value.
DState ==
    [is_done |-> is_done, listening |-> listening, handlers |-> handlers,
     onDisposeCalls |-> onDisposeCalls, disposeCalled |-> disposeCalled]

\* dispose() that only runs the callback: is_done stays false and the stop
\* listener stays subscribed.
disposeCallbackOnly(s, h) ==
    [s EXCEPT !.handlers = removeHandler(s.handlers, h),
              !.onDisposeCalls[h] = @ + 1,
              !.disposeCalled[h] = TRUE]

\* dispose() without its is_done guard.
disposeUnguarded(s, h) ==
    [s EXCEPT !.is_done[h] = TRUE,
              !.listening[h] = FALSE,
              !.handlers = removeHandler(s.handlers, h),
              !.onDisposeCalls[h] = @ + 1,
              !.disposeCalled[h] = TRUE]

\* GeminiResponseHandler.dispose
dispose(s, h) ==
    IF s.is_done[h]
    THEN [s EXCEPT !.disposeCalled[h] = TRUE]
    ELSE [s EXCEPT !.is_done[h] = TRUE,
                   !.listening[h] = FALSE,
                   !.handlers = removeHandler(s.handlers, h),
                   !.onDisposeCalls[h] = @ + 1,
                   !.disposeCalled[h] = TRUE]

SetDState(s) ==
    /\ is_done' = s.is_done
    /\ listening' = s.listening
    /\ handlers' = s.handlers
    /\ onDisposeCalls' = s.onDisposeCalls
    /\ disposeCalled' = s.disposeCalled

\* The throttle with >= : if (now - this.last_update_time >= 1000)
ShouldFlushAtLeast(n, last) == n - last >= ThrottleMs

\* The throttle written in seconds: if (now - this.last_update_time > 1)
ShouldFlushSeconds(n, last) == n - last > 1

\* if (now - this.last_update_time > 1000)
ShouldFlush(n, last) == n - last > ThrottleMs

\* ------------------------------------------------------------------ Init

Init ==
    /\ agentPc = "new"
    /\ modelSet = FALSE
    /\ subscribed = FALSE
    /\ handlers = <<>>
    /\ hmSending = 0
    /\ created = 0
    /\ thinking = {}
    /\ aiSeen = FALSE
    /\ pc = [h \in MsgIds |-> "none"]
    /\ is_done = [h \in MsgIds |-> FALSE]
    /\ aborted = [h \in MsgIds |-> FALSE]
    /\ listening = [h \in MsgIds |-> FALSE]
    /\ fullResponse = [h \in MsgIds |-> <<>>]
    /\ last_update_time = [h \in MsgIds |-> 0]
    /\ now = [h \in MsgIds |-> 0]
    /\ stopPending = [h \in MsgIds |-> 0]
    /\ stream = [h \in MsgIds |-> <<>>]
    /\ streamEnded = [h \in MsgIds |-> FALSE]
    /\ clock = Epoch
    /\ log = [h \in MsgIds |-> NoCalls]
    /\ msgText = [h \in MsgIds |-> <<>>]
    /\ flushTimes = [h \in MsgIds |-> <<>>]
    /\ onDisposeCalls = [h \in MsgIds |-> 0]
    /\ disposeCalled = [h \in MsgIds |-> FALSE]
    /\ nStops = [h \in MsgIds |-> 0]
    /\ ignoredStops = [h \in MsgIds |-> 0]

\* Date.now() moves on.  The clock is read only by the chunk loop (NextChunk),
\* so its advance is taken when a run waits for a chunk that can still come.
Tick(maxSeconds, maxChunks) ==
    /\ \E h \in MsgIds : pc[h] = "nextChunk" /\ Len(stream[h]) < maxChunks
    /\ \E t \in ClockValues(maxSeconds) : t > clock /\ clock' = t
    /\ UNCHANGED <<agentVars, disposeVars, runVars, stopVars, log, msgText, flushTimes>>


\* ----------------------------------------------------------- GeminiAgent

\* GeminiAgent.init with GEMINI_API_KEY present: builds the model client and
\* subscribes handleMessage.
AgentInit ==
    /\ agentPc = "new"
    /\ agentPc' = "ready"
    /\ modelSet' = TRUE
    /\ subscribed' = TRUE
    /\ UNCHANGED <<hmSending, created, thinking, aiSeen>>
    /\ UNCHANGED <<disposeVars, runVars, stopVars, ioVars>>

\* handleMessage without the ai_generated test.
IgnoresButAi(e) ==
    \/ ~modelSet
    \/ ~e.hasMessage
    \/ ~e.hasText

\* handleMessage's early returns: no model, no message, AI-authored, no text.
Ignores(e) ==
    \/ ~modelSet
    \/ ~e.hasMessage
    \/ e.ai_generated
    \/ ~e.hasText

\* A "message.new" event is delivered to handleMessage, which runs up to its
\* await of channel.sendMessage.
MessageNew(e, maxMsgs) ==
    /\ subscribed
    /\ ~Ignores(e) => created + hmSending < maxMsgs
    /\ aiSeen' = (aiSeen \/ (e.hasMessage /\ e.ai_generated))
    /\ hmSending' = IF Ignores(e) THEN hmSending ELSE hmSending + 1
    /\ UNCHANGED <<agentPc, modelSet, subscribed, created, thinking>>
    /\ UNCHANGED <<disposeVars, runVars, stopVars, ioVars>>

\* channel.sendMessage returns the placeholder (ok) or throws; with the
\* placeholder, handleMessage sends the THINKING event and awaits it.
SendMessageDone(ok) ==
    /\ hmSending > 0
    /\ hmSending' = hmSending - 1
    /\ IF ok
       THEN /\ created' = created + 1
            /\ thinking' = thinking \cup {created + 1}
            /\ Issue(created + 1, "THINKING", <<>>)
       ELSE UNCHANGED <<created, thinking, log>>
    /\ UNCHANGED <<agentPc, modelSet, subscribed, aiSeen>>
    /\ UNCHANGED <<disposeVars, runVars, stopVars, clock, msgText, flushTimes>>

\* The THINKING sendEvent returns (ok) or throws.  On return handleMessage
\* constructs the handler (which subscribes its stop listener), pushes it on
\* this.handlers and calls run(), which creates the AbortController, sends the
\* GENERATING event and awaits it.
ThinkingDone(m, ok) ==
    /\ m \in thinking
    /\ thinking' = thinking \ {m}
    /\ IF ok
       THEN /\ listening' = [listening EXCEPT ![m] = TRUE]
            /\ handlers' = Append(handlers, m)
            /\ aborted' = [aborted EXCEPT ![m] = FALSE]
            /\ Issue(m, "GENERATING", <<>>)
            /\ pc' = [pc EXCEPT ![m] = "genEvent"]
       ELSE UNCHANGED <<listening, handlers, aborted, log, pc>>
    /\ UNCHANGED <<agentPc, modelSet, subscribed, hmSending, created, aiSeen>>
    /\ UNCHANGED <<is_done, onDisposeCalls, disposeCalled>>
    /\ UNCHANGED <<fullResponse, last_update_time, now, stream, streamEnded>>
    /\ UNCHANGED <<stopVars, clock, msgText, flushTimes>>

\* GeminiAgent.dispose up to its await of disconnectUser.
AgentDispose ==
    /\ agentPc = "ready"
    /\ agentPc' = "disconnecting"
    /\ subscribed' = FALSE
    /\ UNCHANGED <<modelSet, hmSending, created, thinking, aiSeen>>
    /\ UNCHANGED <<disposeVars, runVars, stopVars, ioVars>>

RECURSIVE DisposeEachSkipping(_, _)
\* forEach over an array that each dispose() shrinks in place (removeHandler
\* by splice): the handler after each disposed one is skipped.
DisposeEachSkipping(s, hs) ==
    IF hs = <<>> THEN s
    ELSE DisposeEachSkipping(dispose(s, Head(hs)),
                             IF Len(hs) >= 2 THEN Tail(Tail(hs)) ELSE <<>>)

RECURSIVE DisposeEach(_, _)
\* this.handlers.forEach((handler) => handler.dispose()) over the array as it
\* was when forEach began: removeHandler replaces this.handlers, it does not
\* change the array being walked.
DisposeEach(s, hs) ==
    IF hs = <<>> THEN s ELSE DisposeEach(dispose(s, Head(hs)), Tail(hs))

\* disconnectUser returns (ok) or throws; on return every handler of the
\* registry is disposed and the registry is reset.
DisconnectDone(ok) ==
    /\ agentPc = "disconnecting"
    /\ IF ok
       THEN /\ agentPc' = "disposed"
            /\ SetDState([DisposeEach(DState, handlers) EXCEPT !.handlers = <<>>])
       ELSE /\ agentPc' = "disposeFailed"
            /\ UNCHANGED disposeVars
    /\ UNCHANGED <<modelSet, subscribed, hmSending, created, thinking, aiSeen>>
    /\ UNCHANGED <<runVars, stopVars, ioVars>>

\* ------------------------------------------------- GeminiResponseHandler

\* run() without a finally block: dispose() is called only when the try or
\* catch block completes, not when an exception leaves the catch block.
FinallyOnlyOnReturn(h, s, outcome) ==
    /\ SetDState(IF outcome = "returned" THEN dispose(s, h) ELSE s)
    /\ pc' = [pc EXCEPT ![h] = outcome]

\* run()'s finally block: await this.dispose(), after which run() resolves
\* ("returned") or rejects with the exception thrown out of the catch block
\* ("rejected").
Finally(h, s, outcome) ==
    /\ SetDState(dispose(s, h))
    /\ pc' = [pc EXCEPT ![h] = outcome]

\* run()'s catch block without the AbortError test: every error goes to
\* handleError.
CatchAbortAsError(h, isAbort) ==
    IF is_done[h]
    THEN /\ Finally(h, DState, "returned")
         /\ UNCHANGED log
    ELSE /\ Issue(h, "ERROR", <<>>)
         /\ pc' = [pc EXCEPT ![h] = "errEvent"]
         /\ UNCHANGED disposeVars

\* run()'s catch block up to its first await.  An AbortError sends the CLEAR
\* event; any other error calls handleError, which returns at once when
\* is_done and otherwise sends the ERROR event.
Catch(h, isAbort) ==
    IF isAbort
    THEN /\ Issue(h, "CLEAR", <<>>)
         /\ pc' = [pc EXCEPT ![h] = "cancelClear"]
         /\ UNCHANGED disposeVars
    ELSE IF is_done[h]
    THEN /\ Finally(h, DState, "returned")
         /\ UNCHANGED log
    ELSE /\ Issue(h, "ERROR", <<>>)
         /\ pc' = [pc EXCEPT ![h] = "errEvent"]
         /\ UNCHANGED disposeVars

\* The GENERATING sendEvent returns or throws; on return run() calls
\* generateContentStream.
GeneratingDone(h, ok) ==
    /\ pc[h] = "genEvent"
    /\ IF ok
       THEN /\ pc' = [pc EXCEPT ![h] = "genStream"]
            /\ UNCHANGED <<log, disposeVars>>
       ELSE Catch(h, FALSE)
    /\ UNCHANGED <<aborted, fullResponse, last_update_time, now, stream, streamEnded>>
    /\ UNCHANGED <<agentVars, stopVars, clock, msgText, flushTimes>>

\* generateContentStream resolves with the stream, or rejects: with an
\* AbortError only when the signal has fired.
StreamRequestDone(h, r) ==
    /\ pc[h] = "genStream"
    /\ r = "abort" => aborted[h]
    /\ IF r = "ok"
       THEN /\ pc' = [pc EXCEPT ![h] = "nextChunk"]
            /\ UNCHANGED <<log, disposeVars>>
       ELSE Catch(h, r = "abort")
    /\ UNCHANGED <<aborted, fullResponse, last_update_time, now, stream, streamEnded>>
    /\ UNCHANGED <<agentVars, stopVars, clock, msgText, flushTimes>>

\* The final update made subject to the throttle: skipped, and the CLEAR
\* event sent at once, when the last update is recent.
FinalFlushThrottled(h) ==
    IF ShouldFlush(clock, last_update_time[h])
    THEN /\ Issue(h, "FINAL", fullResponse[h])
         /\ pc' = [pc EXCEPT ![h] = "final"]
    ELSE /\ Issue(h, "CLEAR", <<>>)
         /\ pc' = [pc EXCEPT ![h] = "clear"]

\* The statements after the for-await loop up to the await of the final
\* partialUpdateMessage.
FinalFlush(h) ==
    /\ Issue(h, "FINAL", fullResponse[h])
    /\ pc' = [pc EXCEPT ![h] = "final"]

\* The stream yields chunk c: one pass of the loop body, up to the await of
\* the partial update when one is due, else up to the wait for the next chunk.
\* The provider may yield whether or not the signal has fired.
NextChunk(h, c, maxChunks) ==
    /\ pc[h] = "nextChunk"
    /\ Len(stream[h]) < maxChunks
    /\ stream' = [stream EXCEPT ![h] = Append(@, c)]
    /\ IF is_done[h]
       THEN /\ FinalFlush(h)
            /\ UNCHANGED <<fullResponse, now, flushTimes>>
       ELSE IF c = <<>>
       THEN UNCHANGED <<pc, log, fullResponse, now, flushTimes>>
       ELSE /\ fullResponse' = [fullResponse EXCEPT ![h] = Concat(@, c)]
            /\ IF ShouldFlush(clock, last_update_time[h])
               THEN /\ Issue(h, "PARTIAL", Concat(fullResponse[h], c))
                    /\ flushTimes' = [flushTimes EXCEPT ![h] = Append(@, clock)]
                    /\ now' = [now EXCEPT ![h] = clock]
                    /\ pc' = [pc EXCEPT ![h] = "partial"]
               ELSE UNCHANGED <<pc, log, now, flushTimes>>
    /\ UNCHANGED <<aborted, last_update_time, streamEnded>>
    /\ UNCHANGED <<agentVars, disposeVars, stopVars, clock, msgText>>

\* The stream is exhausted: the loop ends and the final update is sent.
StreamEnd(h) ==
    /\ pc[h] = "nextChunk"
    /\ streamEnded' = [streamEnded EXCEPT ![h] = TRUE]
    /\ FinalFlush(h)
    /\ UNCHANGED <<aborted, fullResponse, last_update_time, now, stream>>
    /\ UNCHANGED <<agentVars, disposeVars, stopVars, clock, msgText, flushTimes>>

\* The stream throws while the loop waits for a chunk: an AbortError only when
\* the signal has fired.
StreamThrows(h, isAbort) ==
    /\ pc[h] = "nextChunk"
    /\ isAbort => aborted[h]
    /\ Catch(h, isAbort)
    /\ UNCHANGED <<aborted, fullResponse, last_update_time, now, stream, streamEnded>>
    /\ UNCHANGED <<agentVars, stopVars, clock, msgText, flushTimes>>

\* The in-loop partialUpdateMessage returns (the transport holds the text
\* sent, last_update_time = now) or throws.
PartialDone(h, ok) ==
    /\ pc[h] = "partial"
    /\ now' = [now EXCEPT ![h] = 0]
    /\ IF ok
       THEN /\ msgText' = [msgText EXCEPT ![h] = fullResponse[h]]
            /\ last_update_time' = [last_update_time EXCEPT ![h] = now[h]]
            /\ pc' = [pc EXCEPT ![h] = "nextChunk"]
            /\ UNCHANGED <<log, disposeVars>>
       ELSE /\ Catch(h, FALSE)
            /\ UNCHANGED <<msgText, last_update_time>>
    /\ UNCHANGED <<aborted, fullResponse, stream, streamEnded>>
    /\ UNCHANGED <<agentVars, stopVars, clock, flushTimes>>

\* The final partialUpdateMessage returns and run() disposes before it sends
\* the CLEAR event.
FinalDoneDisposesFirst(h, ok) ==
    /\ pc[h] = "final"
    /\ IF ok
       THEN /\ msgText' = [msgText EXCEPT ![h] = fullResponse[h]]
            /\ SetDState(dispose(DState, h))
            /\ Issue(h, "CLEAR", <<>>)
            /\ pc' = [pc EXCEPT ![h] = "clear"]
       ELSE /\ Catch(h, FALSE)
            /\ UNCHANGED msgText
    /\ UNCHANGED <<aborted, fullResponse, last_update_time, now, stream, streamEnded>>
    /\ UNCHANGED <<agentVars, stopVars, clock, flushTimes>>

\* The final partialUpdateMessage returns, and the CLEAR event is sent, or
\* throws.
FinalDone(h, ok) ==
    /\ pc[h] = "final"
    /\ IF ok
       THEN /\ msgText' = [msgText EXCEPT ![h] = fullResponse[h]]
            /\ Issue(h, "CLEAR", <<>>)
            /\ pc' = [pc EXCEPT ![h] = "clear"]
            /\ UNCHANGED disposeVars
       ELSE /\ Catch(h, FALSE)
            /\ UNCHANGED msgText
    /\ UNCHANGED <<aborted, fullResponse, last_update_time, now, stream, streamEnded>>
    /\ UNCHANGED <<agentVars, stopVars, clock, flushTimes>>

\* The try block's CLEAR sendEvent returns (finally, run() resolves) or throws.
ClearDone(h, ok) ==
    /\ pc[h] = "clear"
    /\ IF ok
       THEN /\ Finally(h, DState, "returned")
            /\ UNCHANGED log
       ELSE Catch(h, FALSE)
    /\ UNCHANGED <<aborted, fullResponse, last_update_time, now, stream, streamEnded>>
    /\ UNCHANGED <<agentVars, stopVars, clock, msgText, flushTimes>>

\* The catch block's CLEAR sendEvent returns or throws; a throw leaves the
\* catch block, so run() rejects after finally.
CancelClearDone(h, ok) ==
    /\ pc[h] = "cancelClear"
    /\ Finally(h, DState, IF ok THEN "returned" ELSE "rejected")
    /\ UNCHANGED <<aborted, fullResponse, last_update_time, now, stream, streamEnded>>
    /\ UNCHANGED <<agentVars, stopVars, ioVars>>

\* handleError without its partialUpdateMessage: after the ERROR event it
\* disposes at once.
ErrEventDoneSkipsText(h, ok) ==
    /\ pc[h] = "errEvent"
    /\ Finally(h, DState, IF ok THEN "returned" ELSE "rejected")
    /\ UNCHANGED log
    /\ UNCHANGED <<aborted, fullResponse, last_update_time, now, stream, streamEnded>>
    /\ UNCHANGED <<agentVars, stopVars, clock, msgText, flushTimes>>

\* handleError's ERROR sendEvent returns, and the error text is sent, or throws
\* out of handleError and of the catch block.
ErrEventDone(h, ok) ==
    /\ pc[h] = "errEvent"
    /\ IF ok
       THEN /\ Issue(h, "ERRTEXT", ErrText)
            /\ pc' = [pc EXCEPT ![h] = "errText"]
            /\ UNCHANGED disposeVars
       ELSE /\ Finally(h, DState, "rejected")
            /\ UNCHANGED log
    /\ UNCHANGED <<aborted, fullResponse, last_update_time, now, stream, streamEnded>>
    /\ UNCHANGED <<agentVars, stopVars, clock, msgText, flushTimes>>

\* handleError's partialUpdateMessage returns (handleError disposes, then
\* finally disposes again) or throws.
ErrTextDone(h, ok) ==
    /\ pc[h] = "errText"
    /\ IF ok
       THEN /\ msgText' = [msgText EXCEPT ![h] = ErrText]
            /\ Finally(h, dispose(DState, h), "returned")
       ELSE /\ Finally(h, DState, "rejected")
            /\ UNCHANGED msgText
    /\ UNCHANGED <<aborted, fullResponse, last_update_time, now, stream, streamEnded>>
    /\ UNCHANGED <<agentVars, stopVars, clock, log, flushTimes>>

\* handleStopGenerating with its message id test inverted.
StopAcceptsOtherId(h, m) == listening[h] /\ ~is_done[h] /\ m # h

\* handleStopGenerating without the message id test.
StopAcceptsAnyId(h, m) == listening[h] /\ ~is_done[h]

\* handleStopGenerating's guard, for a subscribed handler h and a stop event
\* carrying message id m.
StopAccepts(h, m) == listening[h] /\ ~is_done[h] /\ m = h

\* An "ai_indicator.stop" event carrying message id m reaches the client, which
\* calls every subscribed handleStopGenerating.  Each one that accepts it aborts
\* its controller, sends the CLEAR event and awaits it.  The handler bound to
\* m, once constructed, either accepts the event or ignores it.
StopSignal(m) ==
    /\ \A h \in MsgIds :
         (StopAccepts(h, m) \/ (h = m /\ pc[h] # "none"))
            => nStops[h] + ignoredStops[h] < MaxStops
    /\ aborted' = [h \in MsgIds |-> IF StopAccepts(h, m) THEN TRUE ELSE aborted[h]]
    /\ log' = [h \in MsgIds |->
                 IF StopAccepts(h, m) THEN Record(log[h], "CLEAR", <<>>) ELSE log[h]]
    /\ stopPending' = [h \in MsgIds |->
                 IF StopAccepts(h, m) THEN stopPending[h] + 1 ELSE stopPending[h]]
    /\ nStops' = [h \in MsgIds |-> IF StopAccepts(h, m) THEN nStops[h] + 1 ELSE nStops[h]]
    /\ ignoredStops' = [h \in MsgIds |->
                 IF h = m /\ pc[h] # "none" /\ ~StopAccepts(h, m)
                 THEN ignoredStops[h] + 1 ELSE ignoredStops[h]]
    /\ UNCHANGED <<pc, fullResponse, last_update_time, now, stream, streamEnded>>
    /\ UNCHANGED <<agentVars, disposeVars, clock, msgText, flushTimes>>

\* handleStopGenerating's CLEAR sendEvent returns, and it disposes, or throws.
StopClearDone(h, ok) ==
    /\ stopPending[h] > 0
    /\ stopPending' = [stopPending EXCEPT ![h] = @ - 1]
    /\ IF ok THEN SetDState(dispose(DState, h)) ELSE UNCHANGED disposeVars
    /\ UNCHANGED <<nStops, ignoredStops>>
    /\ UNCHANGED <<agentVars, runVars, ioVars>>

\* ------------------------------------------------------------------ Next

\* The steps of one handler's run(): the call it awaits returns or throws, or
\* the provider stream yields, ends or throws.
RunStep(h, chunks, maxChunks) ==
    \/ \E ok \in BOOLEAN : GeneratingDone(h, ok)
    \/ \E r \in {"ok", "error", "abort"} : StreamRequestDone(h, r)
    \/ \E c \in chunks : NextChunk(h, c, maxChunks)
    \/ StreamEnd(h)
    \/ \E isAbort \in BOOLEAN : StreamThrows(h, isAbort)
    \/ \E ok \in BOOLEAN : PartialDone(h, ok)
    \/ \E ok \in BOOLEAN : FinalDone(h, ok)
    \/ \E ok \in BOOLEAN : ClearDone(h, ok)
    \/ \E ok \in BOOLEAN : CancelClearDone(h, ok)
    \/ \E ok \in BOOLEAN : ErrEventDone(h, ok)
    \/ \E ok \in BOOLEAN : ErrTextDone(h, ok)

\* The steps of one handler's run, stop listener and provider stream.
HandlerStep(h, chunks, maxChunks) ==
    \/ RunStep(h, chunks, maxChunks)
    \/ \E ok \in BOOLEAN : StopClearDone(h, ok)

\* The steps of the agent.
AgentStep(inbound, maxMsgs) ==
    \/ AgentInit
    \/ \E e \in inbound : MessageNew(e, maxMsgs)
    \/ \E ok \in BOOLEAN : SendMessageDone(ok)
    \/ \E m \in MsgIds, ok \in BOOLEAN : ThinkingDone(m, ok)
    \/ AgentDispose
    \/ \E ok \in BOOLEAN : DisconnectDone(ok)

\* The whole program: up to MaxMsgs replies in flight at once.
Next ==
    \/ Tick(WideSeconds, WideChunks)
    \/ AgentStep(UserInbound, MaxMsgs)
    \/ \E h \in MsgIds : HandlerStep(h, WideChunkSet, WideChunks)
    \/ \E m \in StopIds : StopSignal(m)

Spec == Init /\ [][Next]_vars

\* One reply: the agent answers a single user message.
NextReply ==
    \/ Tick(MaxSeconds, MaxChunks)
    \/ AgentStep(Inbound, 1)
    \/ \E h \in MsgIds : HandlerStep(h, Chunks, MaxChunks)
    \/ \E m \in StopIds : StopSignal(m)

SpecReply == Init /\ [][NextReply]_vars

\* One reply, with every awaited call settling: the provider stream is finite
\* and each provider or transport call eventually returns or throws, after
\* which the event loop runs the continuation that awaits it.
SpecReplyFair ==
    /\ SpecReply
    /\ \A h \in MsgIds :
          /\ WF_vars(RunStep(h, Chunks, MaxChunks))
          /\ WF_vars(\E ok \in BOOLEAN : StopClearDone(h, ok))

\* ---------------------------------------------------------------- claims

\* C1: for every handler, whichever of run()'s finally step, the stop handler,
\* handleError and the agent's bulk dispose call dispose() and in whatever
\* order, the onDispose callback runs at most once, and exactly once when
\* dispose() was called at all.
C1_DisposeCallbackOnce ==
    \A h \in MsgIds :
        /\ onDisposeCalls[h] <= 1
        /\ disposeCalled[h] => onDisposeCalls[h] = 1

\* handleError disposed, finally disposed again, and an accepted stop request
\* has run to its end as well.
C1_Witness ==
    \E h \in MsgIds :
        /\ pc[h] = "returned"
        /\ msgText[h] = ErrText
        /\ nStops[h] > 0
        /\ stopPending[h] = 0
        /\ onDisposeCalls[h] = 1

\* The accumulated-text updates (throttled and final) issued for h, in order.
IsAccumulated(u) == u.op \in {"PARTIAL", "FINAL"}
Accumulated(h) == SelectSeq(log[h].updates, IsAccumulated)

\* C2: once a handler has accepted a stop request, it issues no further
\* update of the message text from its accumulation, so the text stays at
\* the last partial update issued before the stop.
C2_NoUpdateAfterStopAccepted ==
    [][\A h \in MsgIds : nStops[h] > 0 => Accumulated(h)' = Accumulated(h)]_vars

\* What a stop event leaves alone in handler m when m takes no notice of it.
StopIsNoOpFor(m) ==
    /\ aborted'[m] = aborted[m]
    /\ log'[m] = log[m]
    /\ stopPending'[m] = stopPending[m]
    /\ nStops'[m] = nStops[m]
    /\ is_done'[m] = is_done[m]

\* C3 as stated: a stop event for the handler's own message delivered after
\* the provider stream was exhausted fires no token, sends no CLEAR event and
\* calls no dispose.
C3_StopAfterExhaustionIsNoOp ==
    [][\A m \in MsgIds : (streamEnded[m] /\ StopSignal(m)) => StopIsNoOpFor(m)]_vars

\* C3 as amended: a stop event for the handler's own message delivered after
\* dispose() was called on the handler fires no token, sends no CLEAR event
\* and calls no dispose.
C3_StopAfterDisposeIsNoOp ==
    [][\A m \in MsgIds : (disposeCalled[m] /\ StopSignal(m)) => StopIsNoOpFor(m)]_vars

\* The stream ended, run() disposed and returned, and a stop event for the
\* message then came and was ignored.
C3_Witness ==
    \E m \in MsgIds :
        /\ streamEnded[m]
        /\ pc[m] = "returned"
        /\ agentPc = "ready"
        /\ ignoredStops[m] > 0
        /\ nStops[m] = 0
        /\ ~aborted[m]

\* C4: any two updates issued from inside the chunk loop are issued at clock
\* readings at least ThrottleMs apart.
C4_LoopUpdatesThrottled ==
    \A h \in MsgIds :
        \A i, j \in DOMAIN flushTimes[h] :
            i < j => flushTimes[h][j] - flushTimes[h][i] >= ThrottleMs

C4_Witness == \E h \in MsgIds : Len(flushTimes[h]) >= 2

\* C5: each accumulated-text update carries a text that extends the text of
\* the previous one, and is a prefix of the concatenation of the chunks
\* consumed so far.
C5_UpdatesExtendPrefix ==
    \A h \in MsgIds :
        LET us == Accumulated(h) IN
        \A i \in 1..Len(us) :
            /\ IsPrefix(us[i].text, Flatten(stream[h]))
            /\ i > 1 => IsPrefix(us[i - 1].text, us[i].text)

\* Two accumulated updates, the second with more text than the first.
C5_Witness ==
    \E h \in MsgIds :
        LET us == Accumulated(h) IN
        /\ Len(us) >= 2
        /\ Len(us[1].text) >= 1
        /\ Len(us[2].text) > Len(us[1].text)

\* The run saw the stream end, no stop request was accepted, and the last
\* event sent is the try block's CLEAR with no ERROR event before it.
CleanRun(h) ==
    /\ streamEnded[h]
    /\ nStops[h] = 0
    /\ log[h].lastEvent = "CLEAR"
    /\ "ERROR" \notin log[h].events

\* C6: when the stream is exhausted the final update is issued, whatever the
\* throttle says, with the in-order concatenation of all chunks yielded; and
\* after a run with no stop and no error the message holds that text.
C6_FinalFlushComplete ==
    \A h \in MsgIds :
        /\ streamEnded[h] =>
              \E i \in DOMAIN log[h].updates :
                  log[h].updates[i] = [op |-> "FINAL", text |-> Flatten(stream[h])]
        /\ (pc[h] = "returned" /\ CleanRun(h)) => msgText[h] = Flatten(stream[h])

\* A clean run whose final flush came with no time elapsed since a throttled
\* update and carried more text than it.
C6_Witness ==
    \E h \in MsgIds :
        /\ pc[h] = "returned"
        /\ CleanRun(h)
        /\ Len(flushTimes[h]) >= 1
        /\ clock = flushTimes[h][Len(flushTimes[h])]
        /\ \E i \in DOMAIN log[h].updates :
              /\ log[h].updates[i].op = "PARTIAL"
              /\ Len(log[h].updates[i].text) < Len(msgText[h])

\* C7: a stop event carrying message id m changes nothing of a handler bound
\* to another message: its done flag, token, accumulated text, position,
\* pending stop requests, calls issued and registry membership stay as
\* they are.
C7_StopLeavesOthersAlone ==
    [][\A m \in StopIds :
          StopSignal(m) =>
             \A n \in MsgIds \ {m} :
                /\ StopIsNoOpFor(n)
                /\ fullResponse'[n] = fullResponse[n]
                /\ pc'[n] = pc[n]
                /\ listening'[n] = listening[n]
                /\ (\E i \in DOMAIN handlers' : handlers'[i] = n)
                      <=> (\E i \in DOMAIN handlers : handlers[i] = n)]_vars

\* Handler m has accepted a stop request while another handler n is in the
\* middle of its run, untouched.
C7_Witness ==
    \E m, n \in MsgIds :
        /\ m # n
        /\ nStops[m] > 0
        /\ pc[n] = "nextChunk"
        /\ listening[n]
        /\ ~is_done[n]
        /\ ~aborted[n]
        /\ nStops[n] = 0

\* An inbound event handleMessage must not act on.
NotForReply(e) == ~e.hasMessage \/ e.ai_generated \/ ~e.hasText

\* C8: an inbound event that is AI-authored, has no message or has no text
\* calls no sendMessage, creates no placeholder, adds no handler to the
\* registry and starts no run; before init no event reaches handleMessage.
C8_IgnoredInboundSpawnsNothing ==
    /\ [](~modelSet => ~subscribed)
    /\ [][\A e \in Inbound :
            (NotForReply(e) /\ MessageNew(e, 1)) =>
                UNCHANGED <<hmSending, created, thinking, handlers, pc, log, listening>>]_vars

\* An AI-authored event was delivered to the subscribed agent and nothing was
\* created.
C8_Witness ==
    /\ aiSeen
    /\ subscribed
    /\ hmSending = 0
    /\ created = 0
    /\ handlers = <<>>

\* C9: run() never rejects: no failure of a provider or transport call gets
\* out of the handler.
C9_RunNeverRejects == \A h \in MsgIds : pc[h] # "rejected"

\* C10: when the GENERATING sendEvent fails, run() goes on to request the
\* stream and does not take the error path.
C10_GeneratingFailureGoesOn ==
    [][\A h \in MsgIds :
          GeneratingDone(h, FALSE) =>
             /\ pc'[h] = "genStream"
             /\ "ERROR" \notin log'[h].events]_vars

\* The provider fails with an error that is not an AbortError: the request
\* rejects, or the stream throws while the loop waits for a chunk.
ProviderFails(h) == StreamRequestDone(h, "error") \/ StreamThrows(h, FALSE)

HasErrText(h) == \E i \in DOMAIN log[h].updates : log[h].updates[i].op = "ERRTEXT"

InRegistry(h) == \E i \in DOMAIN handlers : handlers[i] = h

\* No stop request was accepted by h and the agent was not disposed of.
Undisturbed(h) == nStops[h] = 0 /\ agentPc \in {"new", "ready"}

\* C11 as stated: whenever the provider fails with a non-cancellation error,
\* the ERROR event is sent.
C11_ProviderErrorAlwaysSurfaced ==
    [][\A h \in MsgIds : ProviderFails(h) => "ERROR" \in log'[h].events]_vars

\* C11 as amended: when the provider fails with a non-cancellation error while
\* is_done is false, the ERROR event is sent in that step, with no text set and
\* no disposal yet; the error text is sent only after the ERROR event, and
\* when both calls have returned the message holds the error text; the error
\* path does not dispose before the text update has returned; and a run that
\* has ended has is_done true and its handler out of the registry.
C11_ErrorEventThenTextThenDispose ==
    /\ [][\A h \in MsgIds :
            (ProviderFails(h) /\ ~is_done[h]) =>
                /\ "ERROR" \in log'[h].events
                /\ "ERROR" \notin log[h].events
                /\ ~HasErrText(h)'
                /\ ~is_done'[h]]_vars
    /\ [](\A h \in MsgIds :
            /\ HasErrText(h) => "ERROR" \in log[h].events
            /\ (Undisturbed(h) /\ pc[h] \in {"errEvent", "errText"}) => ~is_done[h]
            /\ (pc[h] = "returned" /\ "ERROR" \in log[h].events) => msgText[h] = ErrText
            /\ pc[h] \in {"returned", "rejected"} => (is_done[h] /\ ~InRegistry(h)))

\* The stream threw a plain error after a chunk was consumed and flushed; the
\* ERROR event and the error text were sent and the handler disposed itself.
C11_Witness ==
    \E h \in MsgIds :
        /\ pc[h] = "returned"
        /\ Undisturbed(h)
        /\ Len(stream[h]) >= 1
        /\ Len(Accumulated(h)) >= 1
        /\ "ERROR" \in log[h].events
        /\ msgText[h] = ErrText
        /\ is_done[h]
        /\ ~InRegistry(h)
        /\ onDisposeCalls[h] = 1

\* The provider reports the cancelled outcome: the request rejects with an
\* AbortError, or the stream throws one while the loop waits for a chunk.
ProviderCancels(h) == StreamRequestDone(h, "abort") \/ StreamThrows(h, TRUE)

RunEnded(h) == pc[h] \in {"returned", "rejected"}

\* C12: when the provider reports the cancelled outcome, the handler sends the
\* CLEAR event in that step and, once that call has returned or thrown,
\* disposes and leaves the registry; from the cancelled outcome on no ERROR
\* event is sent and no error text is set for the message: none was sent
\* before, none is sent while the CLEAR event is awaited, and after the run
\* has ended the handler issues no call at all.
C12_CancelClearsAndDisposes ==
    /\ [][\A h \in MsgIds :
            /\ ProviderCancels(h) =>
                  /\ log'[h] = Record(log[h], "CLEAR", <<>>)
                  /\ pc'[h] = "cancelClear"
            /\ (\E ok \in BOOLEAN : CancelClearDone(h, ok)) =>
                  /\ is_done'[h]
                  /\ ~InRegistry(h)'
                  /\ RunEnded(h)'
            /\ RunEnded(h) => (log'[h] = log[h] /\ msgText'[h] = msgText[h])]_vars
    /\ [](\A h \in MsgIds :
            pc[h] = "cancelClear" =>
                /\ aborted[h]
                /\ "ERROR" \notin log[h].events
                /\ ~HasErrText(h)
                /\ msgText[h] # ErrText)

\* A stop request fired the token after a chunk; the provider reported the
\* cancelled outcome while the stop handler's own CLEAR event was still
\* awaited, and run() sent its CLEAR event, disposed and returned.
C12_Witness ==
    \E h \in MsgIds :
        /\ pc[h] = "returned"
        /\ agentPc = "ready"
        /\ aborted[h]
        /\ nStops[h] = 1
        /\ stopPending[h] = 1
        /\ Len(stream[h]) >= 1
        /\ \A i \in DOMAIN log[h].updates : log[h].updates[i].op = "PARTIAL"
        /\ log[h].lastEvent = "CLEAR"
        /\ "ERROR" \notin log[h].events
        /\ is_done[h]
        /\ ~InRegistry(h)

\* C13: once the agent's dispose() has been called it does not raise, and
\* when it completes every handler of the registry, whether or not it had
\* disposed itself meanwhile, has is_done true and the registry is empty.
C13_AgentDisposeCompletes ==
    [][agentPc = "disconnecting" =>
          /\ agentPc' \in {"disconnecting", "disposed"}
          /\ agentPc' = "disposed" =>
                /\ handlers' = <<>>
                /\ \A h \in MsgIds : InRegistry(h) => is_done'[h]]_vars

\* C14: every started run eventually reaches disposal: whichever path it
\* takes, and also when a transport call inside that path throws, the handler
\* eventually has is_done true and is out of the registry.
C14_RunEventuallyDisposed ==
    \A h \in MsgIds : (pc[h] # "none") ~> (is_done[h] /\ ~InRegistry(h))

\* A transport call of the catch block threw, so run() rejected, with no stop
\* request and no bulk dispose: the finally block disposed the handler.
C14_Witness ==
    \E h \in MsgIds :
        /\ pc[h] = "rejected"
        /\ Undisturbed(h)
        /\ is_done[h]
        /\ ~InRegistry(h)
        /\ onDisposeCalls[h] = 1

\* C15: whenever a stop event for the message of a constructed handler that
\* is not done is delivered, the token is fired and the CLEAR event sent in
\* that step, and eventually the handler is out of the registry with the
\* CLEAR event sent.
C15_StopAbortsClearsAndRemoves ==
    /\ [][\A h \in MsgIds :
            (StopSignal(h) /\ pc[h] # "none" /\ ~is_done[h]) =>
                /\ aborted'[h]
                /\ log'[h] = Record(log[h], "CLEAR", <<>>)
                /\ nStops'[h] = nStops[h] + 1]_vars
    /\ \A h \in MsgIds :
          (nStops[h] > 0) ~> ("CLEAR" \in log[h].events /\ ~InRegistry(h))

\* The stop handler fired the token, its CLEAR event returned and it disposed
\* the handler while run() still waits for the next chunk.
C15_Witness ==
    \E h \in MsgIds :
        /\ agentPc = "ready"
        /\ pc[h] = "nextChunk"
        /\ nStops[h] = 1
        /\ stopPending[h] = 0
        /\ aborted[h]
        /\ "CLEAR" \in log[h].events
        /\ is_done[h]
        /\ ~InRegistry(h)

\* C16: in a state where is_done is already true the handler issues no
\* transport call for its message: no text update and no event.
C16_NoCallOnceDone ==
    [][\A h \in MsgIds : is_done[h] => log'[h] = log[h]]_vars

\* The loop body processes the non-empty chunk c with is_done false.
ProcessesChunk(h, c) == NextChunk(h, c, MaxChunks) /\ c # <<>> /\ ~is_done[h]

\* The step issues the partial update carrying the accumulation with c.
IssuesPartial(h, c) == log'[h] = Record(log[h], "PARTIAL", fullResponse[h] \o c)

\* C17 as stated: a non-empty chunk processed with is_done false issues the
\* partial update if and only if at least ThrottleMs have elapsed since
\* last_update_time, and otherwise issues nothing.
C17_FlushIffAtLeastThrottle ==
    [][\A h \in MsgIds : \A c \in Chunks :
          ProcessesChunk(h, c) =>
             IF clock - last_update_time[h] >= ThrottleMs
             THEN IssuesPartial(h, c)
             ELSE log'[h] = log[h]]_vars

\* C17 as amended: a non-empty chunk processed with is_done false issues the
\* partial update, carrying the full accumulation, if and only if more than
\* ThrottleMs have elapsed since last_update_time, and otherwise issues
\* nothing; last_update_time changes only when that update returns, to the
\* clock reading at which it was issued.
C17_FlushIffMoreThanThrottle ==
    [][\A h \in MsgIds :
          /\ \A c \in Chunks :
                ProcessesChunk(h, c) =>
                   /\ fullResponse'[h] = fullResponse[h] \o c
                   /\ IF clock - last_update_time[h] > ThrottleMs
                      THEN IssuesPartial(h, c)
                      ELSE log'[h] = log[h]
                   /\ last_update_time'[h] = last_update_time[h]
          /\ last_update_time'[h] # last_update_time[h] =>
                /\ PartialDone(h, TRUE)
                /\ last_update_time'[h] = flushTimes[h][Len(flushTimes[h])]]_vars

\* The first chunk was flushed at Epoch and that update returned; the second
\* chunk was processed exactly ThrottleMs later and no update was issued.
C17_Witness ==
    \E h \in MsgIds :
        /\ pc[h] = "nextChunk"
        /\ ~is_done[h]
        /\ Len(stream[h]) = 2
        /\ Len(fullResponse[h]) = 2
        /\ last_update_time[h] = Epoch
        /\ clock - last_update_time[h] = ThrottleMs
        /\ Len(log[h].updates) = 1
        /\ msgText[h] = SubSeq(fullResponse[h], 1, 1)

\* The last text update issued for h is the final flush.
LastUpdateIsFinal(h) ==
    /\ log[h].updates # <<>>
    /\ log[h].updates[Len(log[h].updates)].op = "FINAL"

\* C18: when the stream is exhausted run() sends the final update, when that
\* has returned the CLEAR event, and when that has returned it disposes, in
\* that order; the GENERATING event is never sent before the THINKING event;
\* and a run that saw the stream end and returned, with no stop request, no
\* bulk dispose and no error, has sent THINKING, GENERATING and CLEAR and no
\* other event, CLEAR being the last, after which it sends nothing.
C18_FinalThenClearThenDispose ==
    /\ [][\A h \in MsgIds :
            /\ StreamEnd(h) =>
                  /\ log'[h] = Record(log[h], "FINAL", fullResponse[h])
                  /\ is_done'[h] = is_done[h]
            /\ FinalDone(h, TRUE) =>
                  /\ log'[h] = Record(log[h], "CLEAR", <<>>)
                  /\ is_done'[h] = is_done[h]
            /\ ClearDone(h, TRUE) =>
                  /\ log'[h] = log[h]
                  /\ is_done'[h]
                  /\ ~InRegistry(h)'
            /\ RunEnded(h) => log'[h] = log[h]]_vars
    /\ [](\A h \in MsgIds :
            /\ "GENERATING" \in log[h].events => "THINKING" \in log[h].events
            /\ pc[h] # "none" => "GENERATING" \in log[h].events
            /\ (pc[h] = "final" /\ Undisturbed(h)) =>
                  (~is_done[h] /\ "CLEAR" \notin log[h].events /\ LastUpdateIsFinal(h))
            /\ (pc[h] = "clear" /\ Undisturbed(h)) =>
                  (~is_done[h] /\ log[h].lastEvent = "CLEAR" /\ LastUpdateIsFinal(h))
            /\ (pc[h] = "returned" /\ streamEnded[h] /\ Undisturbed(h)
                    /\ "ERROR" \notin log[h].events) =>
                  /\ log[h].events = {"THINKING", "GENERATING", "CLEAR"}
                  /\ log[h].lastEvent = "CLEAR"
                  /\ LastUpdateIsFinal(h)
                  /\ is_done[h])

\* Two chunks, the stream's end, the final update, the CLEAR event and the
\* disposal, with no stop request, no bulk dispose and no error.
C18_Witness ==
    \E h \in MsgIds :
        /\ pc[h] = "returned"
        /\ streamEnded[h]
        /\ Undisturbed(h)
        /\ ignoredStops[h] = 0
        /\ Len(stream[h]) = 2
        /\ log[h].events = {"THINKING", "GENERATING", "CLEAR"}
        /\ log[h].lastEvent = "CLEAR"
        /\ LastUpdateIsFinal(h)
        /\ msgText[h] = fullResponse[h]
        /\ is_done[h]
        /\ ~InRegistry(h)

\* The handler bound to h has been constructed.
Constructed(h) == pc[h] # "none"

\* The number of times h occurs in the registry.
Occurrences(h) == Cardinality({i \in DOMAIN handlers : handlers[i] = h})

\* C19: at every suspension point the registry holds exactly the constructed
\* handlers whose is_done is false, each once, and a handler's stop listener
\* is subscribed exactly while it is constructed and its is_done is false.
C19_RegistryIsLiveHandlers ==
    \A h \in MsgIds :
        /\ Occurrences(h) <= 1
        /\ InRegistry(h) <=> (Constructed(h) /\ ~is_done[h])
        /\ listening[h] <=> (Constructed(h) /\ ~is_done[h])

\* Two handlers were constructed; one has disposed itself and left the
\* registry, the other is still running and is the registry's only member.
C19_Witness ==
    \E m, n \in MsgIds :
        /\ m # n
        /\ agentPc = "ready"
        /\ pc[m] = "returned"
        /\ is_done[m]
        /\ ~listening[m]
        /\ pc[n] = "nextChunk"
        /\ ~is_done[n]
        /\ listening[n]
        /\ handlers = <<n>>

\* The agent's dispose() has been called.
AgentDisposeCalled == agentPc \in {"disconnecting", "disposed", "disposeFailed"}

\* C20: once the agent's dispose() has been called no handler is constructed,
\* added to the registry or started, and once it has completed the registry
\* stays empty.
C20_NoHandlerAfterAgentDispose ==
    [][AgentDisposeCalled =>
          /\ \A h \in MsgIds :
                /\ ~Constructed(h) => ~Constructed(h)'
                /\ ~InRegistry(h) => ~InRegistry(h)'
          /\ agentPc = "disposed" => handlers' = <<>>]_vars

====
